---- MODULE Spec2Model ----
(***************************************************************************)
(* Model of the splitflap departure board (src/main.go, package main):     *)
(* the service facade (MbtaServiceImpl.ListDepartures and                  *)
(* MbtaServiceTest.ListDepartures), the error types, and the normalisation *)
(* function ExtractDepartures.                                             *)
(*                                                                         *)
(* Go strings that the program only copies or compares are TLA+ strings.   *)
(* Departure timestamps and time labels are sequences of one-character     *)
(* strings, because the program parses and formats them.                   *)
(***************************************************************************)
EXTENDS Integers, Sequences, FiniteSets, TLC

(***************************************************************************)
(* Bounds of the model.                                                    *)
(***************************************************************************)
MaxData == 2
MaxIncluded == 2
MaxErrors == 2
MaxIndexData == 2
MaxIndexIncluded == 3

\* all sequences over S of length at most n
SeqUpTo(S, n) == UNION {[1..k -> S] : k \in 0..n}

(***************************************************************************)
(* time.Parse(time.RFC3339, s) and Time.Format("3:04PM").                  *)
(***************************************************************************)
Digits == {"0", "1", "2", "3", "4", "5", "6", "7", "8", "9"}

DigitVal(c) ==
  CASE c = "0" -> 0 [] c = "1" -> 1 [] c = "2" -> 2 [] c = "3" -> 3
    [] c = "4" -> 4 [] c = "5" -> 5 [] c = "6" -> 6 [] c = "7" -> 7
    [] c = "8" -> 8 [] c = "9" -> 9

DigitChar(n) ==
  CASE n = 0 -> "0" [] n = 1 -> "1" [] n = 2 -> "2" [] n = 3 -> "3"
    [] n = 4 -> "4" [] n = 5 -> "5" [] n = 6 -> "6" [] n = 7 -> "7"
    [] n = 8 -> "8" [] n = 9 -> "9"

\* s[i..j] are all digits
AllDigits(s, i, j) == \A k \in i..j : s[k] \in Digits

\* the value of the two digits s[i], s[i+1]
Num2(s, i) == 10 * DigitVal(s[i]) + DigitVal(s[i + 1])

Num4(s, i) == 100 * Num2(s, i) + Num2(s, i + 2)

IsLeap(y) == y % 4 = 0 /\ (y % 100 # 0 \/ y % 400 = 0)

DaysIn(m, y) ==
  IF m = 2 THEN (IF IsLeap(y) THEN 29 ELSE 28)
  ELSE IF m \in {4, 6, 9, 11} THEN 30 ELSE 31

\* the index of the first character at or after i that is no digit
RECURSIVE SkipDigits(_, _)
SkipDigits(s, i) ==
  IF i <= Len(s) /\ s[i] \in Digits THEN SkipDigits(s, i + 1) ELSE i

\* the index after an optional fractional second that starts at i
AfterFraction(s, i) ==
  IF i + 1 <= Len(s) /\ s[i] \in {".", ","} /\ s[i + 1] \in Digits
  THEN SkipDigits(s, i + 1)
  ELSE i

\* the zone "Z" or a numeric offset +hh:mm / -hh:mm occupies s[i..Len(s)]
ZoneOK(s, i) ==
  \/ i = Len(s) /\ s[i] = "Z"
  \/ /\ i + 5 = Len(s)
     /\ s[i] \in {"+", "-"}
     /\ AllDigits(s, i + 1, i + 2)
     /\ s[i + 3] = ":"
     /\ AllDigits(s, i + 4, i + 5)
     /\ Num2(s, i + 1) <= 24
     /\ Num2(s, i + 4) <= 60

\* the layout 2006-01-02T15:04:05Z07:00 with every field in range
ParseOK(s) ==
  /\ Len(s) >= 20
  /\ AllDigits(s, 1, 4) /\ s[5] = "-"
  /\ AllDigits(s, 6, 7) /\ s[8] = "-"
  /\ AllDigits(s, 9, 10) /\ s[11] = "T"
  /\ AllDigits(s, 12, 13) /\ s[14] = ":"
  /\ AllDigits(s, 15, 16) /\ s[17] = ":"
  /\ AllDigits(s, 18, 19)
  /\ Num2(s, 6) \in 1..12
  /\ Num2(s, 9) \in 1..DaysIn(Num2(s, 6), Num4(s, 1))
  /\ Num2(s, 12) < 24
  /\ Num2(s, 15) < 60
  /\ Num2(s, 18) < 60
  /\ ZoneOK(s, AfterFraction(s, 20))

\* time.Parse: the wall clock of the timestamp in its own offset, or an error
ParseRFC3339(s) ==
  IF ParseOK(s)
  THEN [ok |-> TRUE, hour |-> Num2(s, 12), minute |-> Num2(s, 15)]
  ELSE [ok |-> FALSE, hour |-> 0, minute |-> 0]

\* a variant that keeps the hour of the 24-hour clock
HourOfDay(h) ==
  IF h >= 10 THEN <<DigitChar(h \div 10), DigitChar(h % 10)>> ELSE <<DigitChar(h)>>

\* the hour on a 12-hour clock, without a leading zero
Hour12(h) ==
  LET h12 == IF h % 12 = 0 THEN 12 ELSE h % 12
  IN IF h12 >= 10 THEN <<DigitChar(h12 \div 10), DigitChar(h12 % 10)>>
     ELSE <<DigitChar(h12)>>

\* Time.Format("3:04PM")
FormatKitchen(t) ==
  Hour12(t.hour) \o <<":", DigitChar(t.minute \div 10), DigitChar(t.minute % 10)>>
    \o (IF t.hour >= 12 THEN <<"P", "M">> ELSE <<"A", "M">>)

\* the text of fmt.Errorf("(Parse Error) %s", raw)
ParseErrorText(raw) ==
  <<"(", "P", "a", "r", "s", "e", " ", "E", "r", "r", "o", "r", ")", " ">> \o raw

(***************************************************************************)
(* The decoded payload: ApiV3Response, its records and included entities.  *)
(***************************************************************************)
\* one element of ApiV3Response.Data
Record(time, status, route, stop, trip) ==
  [DepartureTime |-> time, Status |-> status, Route |-> route, Stop |-> stop,
   Trip |-> trip]

\* one element of ApiV3Response.Included; an attribute the JSON leaves out
\* keeps its zero value
Entity(type, id, headsign, platformCode, routeType) ==
  [Type |-> type, Id |-> id, Headsign |-> headsign,
   PlatformCode |-> platformCode, RouteType |-> routeType]

ApiV3Response(data, included) == [Data |-> data, Included |-> included]

\* new(ApiV3Response)
EmptyResponse == ApiV3Response(<<>>, <<>>)

\* one output row
Departure(timeLabel, destination, track, status) ==
  [TimeLabel |-> timeLabel, Destination |-> destination, Track |-> track,
   Status |-> status]

(***************************************************************************)
(* Go maps from string: a function on the keys that were set; reading a    *)
(* key that was never set gives the zero value.                            *)
(***************************************************************************)
EmptyMap == [k \in {} |-> ""]

MapSet(m, key, value) ==
  [k \in DOMAIN m \cup {key} |-> IF k = key THEN value ELSE m[k]]

MapHas(m, key) == key \in DOMAIN m

MapGet(m, key) == IF key \in DOMAIN m THEN m[key] ELSE ""

(***************************************************************************)
(* Errors. A Go error value is a record of its dynamic type and, for the   *)
(* two collecting types, the collected entries.                            *)
(***************************************************************************)
NilError == [kind |-> "nil", errors |-> <<>>]
TransportError == [kind |-> "transport", errors |-> <<>>]
DecodeError == [kind |-> "decode", errors |-> <<>>]
OpenError == [kind |-> "open", errors |-> <<>>]
ApiV3Error(entries) == [kind |-> "ApiV3Error", errors |-> entries]
ParseError(texts) == [kind |-> "ParseError", errors |-> texts]

\* a []Departure result: nil, or a (possibly empty) slice
NilRows == [isNil |-> TRUE, rows |-> <<>>]
Rows(seq) == [isNil |-> FALSE, rows |-> seq]

\* one entry of ApiV3Error.Errors
ErrorEntry(status, parameter, detail, code) ==
  [Status |-> status, Parameter |-> parameter, Detail |-> detail, Code |-> code]

\* fmt's %+v of one entry
EntryText(e) ==
  "{Status:" \o e.Status \o " Source:{Parameter:" \o e.Parameter
    \o "} Detail:" \o e.Detail \o " Code:" \o e.Code \o "}"

\* fmt's %+v of the elements of a slice from index i on, space separated
RECURSIVE EntriesText(_, _)
EntriesText(entries, i) ==
  IF i > Len(entries) THEN ""
  ELSE (IF i > 1 THEN " " ELSE "") \o EntryText(entries[i])
         \o EntriesText(entries, i + 1)

\* a variant that renders the collection whatever its length
ApiV3ErrorTextOfCollection(entries) ==
  "MBTA API error: " \o "[" \o EntriesText(entries, 1) \o "]"

\* ApiV3Error.Error()
ApiV3ErrorText(entries) ==
  IF Len(entries) = 1
  THEN "MBTA API error: " \o entries[1].Detail
  ELSE "MBTA API error: " \o "[" \o EntriesText(entries, 1) \o "]"

(***************************************************************************)
(* ExtractDepartures.                                                      *)
(***************************************************************************)
\* the three indices before the first pass
EmptyIndexes ==
  [trackIndex |-> EmptyMap, routeIndex |-> EmptyMap, destinationIndex |-> EmptyMap]

\* a variant that indexes every route, whatever its mode
IndexEntryAnyRoute(idx, entry) ==
  LET routes == IF entry.Type = "route"
                THEN MapSet(idx.routeIndex, entry.Id, TRUE)
                ELSE idx.routeIndex
      tracks == IF entry.Type = "stop"
                THEN MapSet(idx.trackIndex, entry.Id, entry.PlatformCode)
                ELSE idx.trackIndex
      destinations == IF entry.Type = "trip"
                      THEN MapSet(idx.destinationIndex, entry.Id, entry.Headsign)
                      ELSE idx.destinationIndex
  IN [trackIndex |-> tracks, routeIndex |-> routes, destinationIndex |-> destinations]

\* a variant that takes every entry that is no route and no trip for a stop
IndexEntryStopByDefault(idx, entry) ==
  LET routes == IF entry.Type = "route" /\ entry.RouteType = 2
                THEN MapSet(idx.routeIndex, entry.Id, TRUE)
                ELSE idx.routeIndex
      tracks == IF entry.Type \notin {"route", "trip"}
                THEN MapSet(idx.trackIndex, entry.Id, entry.PlatformCode)
                ELSE idx.trackIndex
      destinations == IF entry.Type = "trip"
                      THEN MapSet(idx.destinationIndex, entry.Id, entry.Headsign)
                      ELSE idx.destinationIndex
  IN [trackIndex |-> tracks, routeIndex |-> routes, destinationIndex |-> destinations]

\* the body of the first loop: what one included entry adds to the indices
IndexEntry(idx, entry) ==
  LET routes == IF entry.Type = "route" /\ entry.RouteType = 2
                THEN MapSet(idx.routeIndex, entry.Id, TRUE)
                ELSE idx.routeIndex
      tracks == IF entry.Type = "stop"
                THEN MapSet(idx.trackIndex, entry.Id, entry.PlatformCode)
                ELSE idx.trackIndex
      destinations == IF entry.Type = "trip"
                      THEN MapSet(idx.destinationIndex, entry.Id, entry.Headsign)
                      ELSE idx.destinationIndex
  IN [trackIndex |-> tracks, routeIndex |-> routes, destinationIndex |-> destinations]

\* a variant that stops before the last entry
RECURSIVE BuildIndexesButLast(_, _, _)
BuildIndexesButLast(included, i, idx) ==
  IF i >= Len(included) THEN idx
  ELSE BuildIndexesButLast(included, i + 1, IndexEntry(idx, included[i]))

\* the first loop, from entry i on
RECURSIVE BuildIndexes(_, _, _)
BuildIndexes(included, i, idx) ==
  IF i > Len(included) THEN idx
  ELSE BuildIndexes(included, i + 1, IndexEntry(idx, included[i]))

\* a variant that does not look at the timestamp
HasStatus(result) == result.Status # ""

\* the record has a prediction and a status
HasPrediction(result) == result.DepartureTime # <<>> /\ result.Status # ""

\* the record's route is in the route index
OnCommuterRail(idx, result) == MapHas(idx.routeIndex, result.Route)

\* a variant that drops the error of time.Parse and formats the zero time
TimeLabelOfUnchecked(result) ==
  [label |-> FormatKitchen(ParseRFC3339(result.DepartureTime)), failed |-> FALSE]

\* the time label of a row, and whether making it was a parse error
TimeLabelOf(result) ==
  LET t == ParseRFC3339(result.DepartureTime)
  IN IF t.ok
     THEN [label |-> FormatKitchen(t), failed |-> FALSE]
     ELSE [label |-> ParseErrorText(result.DepartureTime), failed |-> TRUE]

\* a variant without the default
TrackOfIndex(idx, result) == MapGet(idx.trackIndex, result.Stop)

\* the track of a row
TrackOf(idx, result) ==
  LET track == MapGet(idx.trackIndex, result.Stop)
  IN IF track = "" THEN "TBD" ELSE track

\* a variant that looks the destination up by the route id
BuildRowDestinationByRoute(idx, result) ==
  Departure(TimeLabelOf(result).label,
            MapGet(idx.destinationIndex, result.Route),
            TrackOf(idx, result),
            result.Status)

\* the row built for a record that passed both filters
BuildRow(idx, result) ==
  Departure(TimeLabelOf(result).label,
            MapGet(idx.destinationIndex, result.Trip),
            TrackOf(idx, result),
            result.Status)

\* a variant that puts the new row first
PrependRow(departures, d) == <<d>> \o departures

\* append(departures, d)
AppendRow(departures, d) == Append(departures, d)

\* the second loop, from record i on, with the rows and parse errors so far
RECURSIVE ExtractLoop(_, _, _, _, _)
ExtractLoop(data, i, idx, departures, parseErrors) ==
  IF i > Len(data) THEN [departures |-> departures, parseErrors |-> parseErrors]
  ELSE LET result == data[i]
       IN IF HasPrediction(result) /\ OnCommuterRail(idx, result)
          THEN ExtractLoop(data, i + 1, idx,
                           AppendRow(departures, BuildRow(idx, result)),
                           IF TimeLabelOf(result).failed
                           THEN Append(parseErrors, TimeLabelOf(result).label)
                           ELSE parseErrors)
          ELSE ExtractLoop(data, i + 1, idx, departures, parseErrors)

\* a variant that returns no rows with a parse error
ExtractResultOrError(departures, parseErrors) ==
  IF Len(parseErrors) > 0
  THEN [departures |-> NilRows, err |-> ParseError(parseErrors)]
  ELSE [departures |-> Rows(departures), err |-> NilError]

\* what ExtractDepartures returns once both loops are done
ExtractResult(departures, parseErrors) ==
  IF Len(parseErrors) > 0
  THEN [departures |-> Rows(departures), err |-> ParseError(parseErrors)]
  ELSE [departures |-> Rows(departures), err |-> NilError]

ExtractDepartures(apiResponse) ==
  LET idx == BuildIndexes(apiResponse.Included, 1, EmptyIndexes)
      out == ExtractLoop(apiResponse.Data, 1, idx, <<>>, <<>>)
  IN ExtractResult(out.departures, out.parseErrors)

(***************************************************************************)
(* The upstream's answer to one request, as the HTTP client (or, for the   *)
(* test service, the file system) delivers it.                             *)
(***************************************************************************)
\* a body: empty, not JSON at all ("garbage"), or a JSON object; errorsOK and
\* dataOK say whether its "errors" member, and its "data" and "included"
\* members, have the JSON types of ApiV3Error and ApiV3Response
Body(kind, errorsOK, dataOK, errors, payload) ==
  [kind |-> kind, errorsOK |-> errorsOK, dataOK |-> dataOK, errors |-> errors,
   payload |-> payload]

EmptyBody == Body("empty", TRUE, TRUE, <<>>, EmptyResponse)
GarbageBody == Body("garbage", TRUE, TRUE, <<>>, EmptyResponse)

\* fail: the request got no response (transport error; the file did not open);
\* chunked: the response states no Content-Length
Reply(fail, status, chunked, body) ==
  [fail |-> fail, status |-> status, chunked |-> chunked, body |-> body]

\* json decoding of the body into an ApiV3Error succeeds
DecodesAsError(body) == body.kind = "json" /\ body.errorsOK

\* json decoding of the body into an ApiV3Response succeeds
DecodesAsResponse(body) == body.kind = "json" /\ body.dataOK

\* the status is a 2xx
IsSuccess(status) == 200 <= status /\ status <= 299

\* The releases of the sling library differ in the responses they do not
\* decode: none, those with status 204, or those with status 204 or with
\* Content-Length 0. The repository does not pin a release.
SlingReleases == {"decodes all", "skips 204", "skips 204 and empty"}

\* the library returns without running the JSON decoder on the response
SkipsDecoding(release, reply) ==
  \/ release # "decodes all" /\ reply.status = 204
  \/ release = "skips 204 and empty" /\ reply.body.kind = "empty" /\ ~reply.chunked

\* sling.Receive(apiResponse, apiError): a 2xx body is decoded into
\* apiResponse, any other into apiError
Receive(release, reply) ==
  IF reply.fail
  THEN [err |-> TransportError, apiResponse |-> EmptyResponse, apiError |-> <<>>]
  ELSE IF SkipsDecoding(release, reply)
  THEN [err |-> NilError, apiResponse |-> EmptyResponse, apiError |-> <<>>]
  ELSE IF IsSuccess(reply.status)
  THEN IF DecodesAsResponse(reply.body)
       THEN [err |-> NilError, apiResponse |-> reply.body.payload, apiError |-> <<>>]
       ELSE [err |-> DecodeError, apiResponse |-> EmptyResponse, apiError |-> <<>>]
  ELSE IF DecodesAsError(reply.body)
       THEN [err |-> NilError, apiResponse |-> EmptyResponse,
             apiError |-> reply.body.errors]
       ELSE [err |-> DecodeError, apiResponse |-> EmptyResponse, apiError |-> <<>>]

(***************************************************************************)
(* The two services. A call's outcome: the rows and error it returns, and  *)
(* how many times it ran ExtractDepartures.                                *)
(***************************************************************************)
Returned(departures, err) == [departures |-> departures, err |-> err, extracted |-> 0]

Extracted(apiResponse) ==
  [departures |-> ExtractDepartures(apiResponse).departures,
   err |-> ExtractDepartures(apiResponse).err,
   extracted |-> 1]

\* a variant that looks at the envelope only, not at the error of Receive
NoUpstreamErrorByLength(received) == Len(received.apiError) = 0

\* the branch after Receive: err is the pointer apiError and it has no entries
NoUpstreamError(received) ==
  received.err = NilError /\ Len(received.apiError) = 0

\* MbtaServiceImpl.ListDepartures, given the upstream's reply
ImplListDepartures(release, reply) ==
  LET received == Receive(release, reply)
  IN IF NoUpstreamError(received)
     THEN Extracted(received.apiResponse)
     ELSE IF received.err = NilError
          THEN Returned(NilRows, ApiV3Error(received.apiError))
          ELSE Returned(NilRows, received.err)

\* MbtaServiceTest.ListDepartures, given the outcome of reading JsonFile
TestListDepartures(reply) ==
  IF reply.fail THEN Returned(NilRows, OpenError)
  ELSE IF ~DecodesAsError(reply.body) THEN Returned(NilRows, DecodeError)
  ELSE IF Len(reply.body.errors) > 0
  THEN Returned(NilRows, ApiV3Error(reply.body.errors))
  ELSE IF ~DecodesAsResponse(reply.body) THEN Returned(NilRows, DecodeError)
  ELSE Extracted(reply.body.payload)

(***************************************************************************)
(* Inputs.                                                                 *)
(***************************************************************************)
Ids == {"a", "b"}

\* "2023-01-01T16:30:00-05:00"
TimeGood ==
  <<"2", "0", "2", "3", "-", "0", "1", "-", "0", "1", "T", "1", "6", ":", "3",
    "0", ":", "0", "0", "-", "0", "5", ":", "0", "0">>

\* "4:30PM", no RFC3339 timestamp
TimeBad == <<"4", ":", "3", "0", "P", "M">>

TimeEmpty == <<>>

Times == {TimeEmpty, TimeBad, TimeGood}

Statuses == {"", "On time"}

PlatformCodes == {"", "10", "TBD"}

\* the primary records the extraction is run on
Records ==
  {Record(t, s, r, st, st) : t \in Times, s \in Statuses, r \in Ids, st \in {"a"}}

\* the included entities the extraction is run on
Entities ==
  {Entity("route", "a", "", "", 2), Entity("route", "b", "", "", 2),
   Entity("route", "a", "", "", 3)}
    \cup {Entity("stop", "a", "", p, 0) : p \in PlatformCodes}
    \cup {Entity("stop", "b", "", "10", 0), Entity("trip", "a", "Readville", "", 0),
          Entity("schedule", "a", "", "", 0)}

\* the entries of testdata/error-429.json and of a bad-request envelope
ErrorEntries ==
  {ErrorEntry("429", "", "You have exceeded your allowed usage rate.", "rate_limited"),
   ErrorEntry("400", "sort", "Invalid sort", "bad_request")}

Envelopes == SeqUpTo(ErrorEntries, MaxErrors)

\* the payloads the services are run on
FacadePayloads ==
  {EmptyResponse,
   ApiV3Response(<<Record(TimeGood, "On time", "a", "a", "a")>>,
                 <<Entity("route", "a", "", "", 2)>>),
   ApiV3Response(<<Record(TimeBad, "On time", "a", "a", "a"),
                   Record(TimeGood, "On time", "a", "a", "a")>>,
                 <<Entity("route", "a", "", "", 2), Entity("stop", "a", "", "10", 0)>>)}

Bodies ==
  {EmptyBody, GarbageBody}
    \cup {Body("json", TRUE, TRUE, e, p) : e \in Envelopes, p \in FacadePayloads}
    \cup {Body("json", TRUE, FALSE, e, EmptyResponse) : e \in Envelopes}
    \cup {Body("json", FALSE, TRUE, <<>>, p) : p \in FacadePayloads}
    \cup {Body("json", FALSE, FALSE, <<>>, EmptyResponse)}

\* the statuses of responses that may have a body
HttpStatuses == {200, 429, 500}

NoReply == Reply(TRUE, 0, FALSE, EmptyBody)

\* what the HTTP client can deliver for one request
HttpReplies ==
  {NoReply}
    \cup {Reply(FALSE, st, FALSE, b) : st \in HttpStatuses, b \in Bodies}
    \cup {Reply(FALSE, st, TRUE, EmptyBody) : st \in HttpStatuses}
    \cup {Reply(FALSE, 204, FALSE, EmptyBody)}

\* what opening and reading JsonFile can deliver
FileReplies == {NoReply} \cup {Reply(FALSE, 200, FALSE, b) : b \in Bodies}

(***************************************************************************)
(* State: one call of a service, or of ExtractDepartures itself, at a time.*)
(***************************************************************************)
VARIABLES
  sling,         \* the release of the sling library the program is built with
  pc,            \* "idle": no call made yet; "returned": the call has returned
  client,        \* who was called
  reply,         \* the upstream's reply to the call's request
  apiResponse,   \* the decoded payload handed to a direct ExtractDepartures call
  departures,    \* the rows the call returned
  err,           \* the error the call returned
  extractCalls,  \* how often the call ran ExtractDepartures
  requests,      \* how many requests the call sent upstream
  northStation,  \* Render's board of North Station
  southStation,  \* Render's board of South Station
  fetches,       \* the ListDepartures calls Render has made: place and reply
  page           \* what Render handed to c.HTML

vars == <<sling, pc, client, reply, apiResponse, departures, err, extractCalls, requests,
          northStation, southStation, fetches, page>>

boards == <<northStation, southStation, fetches, page>>

DepartureBoard(title, rows, error) ==
  [Title |-> title, Departures |-> rows, Error |-> error]

NoPage == [status |-> 0]

Idle(response) ==
  /\ pc = "idle"
  /\ client = "none"
  /\ reply = NoReply
  /\ apiResponse = response
  /\ departures = NilRows
  /\ err = NilError
  /\ extractCalls = 0
  /\ requests = 0
  /\ northStation = DepartureBoard("North Station Information", NilRows, NilError)
  /\ southStation = DepartureBoard("South Station Information", NilRows, NilError)
  /\ fetches = <<>>
  /\ page = NoPage

Init == sling \in SlingReleases /\ Idle(EmptyResponse)

\* the number of requests one call of MbtaServiceImpl.ListDepartures sends
ImplRequests(received) == 1

\* GET / : MbtaServiceImpl.ListDepartures runs against the upstream
CallImpl ==
  /\ pc = "idle"
  /\ \E r \in HttpReplies :
       LET out == ImplListDepartures(sling, r)
       IN /\ reply' = r
          /\ departures' = out.departures
          /\ err' = out.err
          /\ extractCalls' = out.extracted
          /\ requests' = requests + ImplRequests(Receive(sling, r))
  /\ pc' = "returned"
  /\ client' = "MbtaServiceImpl"
  /\ UNCHANGED <<sling, apiResponse>>
  /\ UNCHANGED boards

\* GET /test, /testerror : MbtaServiceTest.ListDepartures reads its file
CallTest ==
  /\ pc = "idle"
  /\ \E r \in FileReplies :
       LET out == TestListDepartures(r)
       IN /\ reply' = r
          /\ departures' = out.departures
          /\ err' = out.err
          /\ extractCalls' = out.extracted
  /\ pc' = "returned"
  /\ client' = "MbtaServiceTest"
  /\ UNCHANGED <<sling, apiResponse, requests>>
  /\ UNCHANGED boards

\* the handler is done; the next request starts from nothing
Finish ==
  /\ pc = "returned"
  /\ pc' = "idle"
  /\ client' = "none"
  /\ reply' = NoReply
  /\ departures' = NilRows
  /\ err' = NilError
  /\ extractCalls' = 0
  /\ requests' = 0
  /\ UNCHANGED <<sling, apiResponse>>
  /\ UNCHANGED boards

Next == CallImpl \/ CallTest \/ Finish

Spec == Init /\ [][Next]_vars

\* ExtractDepartures is called on a decoded payload, as TestParse does
InitExtract ==
  /\ sling = "skips 204 and empty"
  /\ \E data \in SeqUpTo(Records, MaxData), included \in SeqUpTo(Entities, MaxIncluded) :
       Idle(ApiV3Response(data, included))

CallExtract ==
  /\ pc = "idle"
  /\ pc' = "returned"
  /\ client' = "ExtractDepartures"
  /\ departures' = ExtractDepartures(apiResponse).departures
  /\ err' = ExtractDepartures(apiResponse).err
  /\ extractCalls' = 1
  /\ UNCHANGED <<sling, reply, apiResponse, requests>>
  /\ UNCHANGED boards

NextExtract == CallExtract

SpecExtract == InitExtract /\ [][NextExtract]_vars

(***************************************************************************)
(* Render: two ListDepartures calls of the handler's service, then the     *)
(* page (specification SpecRender).                                        *)
(***************************************************************************)
Services == {"MbtaServiceImpl", "MbtaServiceTest"}

\* the call through the MbtaService interface
ListDepartures(service, release, r) ==
  IF service = "MbtaServiceImpl" THEN ImplListDepartures(release, r)
  ELSE TestListDepartures(r)

RateLimited ==
  <<ErrorEntry("429", "", "You have exceeded your allowed usage rate.", "rate_limited")>>

RenderBodies ==
  {GarbageBody, Body("json", TRUE, TRUE, RateLimited, EmptyResponse)}
    \cup {Body("json", FALSE, TRUE, <<>>, p) : p \in FacadePayloads \ {EmptyResponse}}

\* what one fetch of Render can be answered with
RenderReplies(service) ==
  {NoReply} \cup {Reply(FALSE, 200, FALSE, b) : b \in RenderBodies}
    \cup (IF service = "MbtaServiceImpl"
          THEN {Reply(FALSE, 429, FALSE, Body("json", TRUE, TRUE, RateLimited, EmptyResponse))}
          ELSE {})

Fetch(place, r) == [place |-> place, reply |-> r]

\* northStation.Departures, northStation.Error = client.ListDepartures("place-north")
FetchNorth ==
  /\ pc = "idle"
  /\ \E service \in Services :
       \E r \in RenderReplies(service) :
         LET out == ListDepartures(service, sling, r)
         IN /\ client' = service
            /\ northStation' = DepartureBoard(northStation.Title, out.departures, out.err)
            /\ fetches' = Append(fetches, Fetch("place-north", r))
  /\ pc' = "north fetched"
  /\ UNCHANGED <<sling, reply, apiResponse, departures, err, extractCalls, requests,
                 southStation, page>>

\* a variant that leaves the second board alone when the first fetch failed
FetchSouthUnlessNorthFailed ==
  /\ pc = "north fetched"
  /\ IF northStation.Error = NilError
     THEN \E r \in RenderReplies(client) :
            LET out == ListDepartures(client, sling, r)
            IN /\ southStation' = DepartureBoard(southStation.Title, out.departures, out.err)
               /\ fetches' = Append(fetches, Fetch("place-sstat", r))
     ELSE UNCHANGED <<southStation, fetches>>
  /\ pc' = "south fetched"
  /\ UNCHANGED <<sling, client, reply, apiResponse, departures, err, extractCalls, requests,
                 northStation, page>>

\* southStation.Departures, southStation.Error = client.ListDepartures("place-sstat")
FetchSouth ==
  /\ pc = "north fetched"
  /\ \E r \in RenderReplies(client) :
       LET out == ListDepartures(client, sling, r)
       IN /\ southStation' = DepartureBoard(southStation.Title, out.departures, out.err)
          /\ fetches' = Append(fetches, Fetch("place-sstat", r))
  /\ pc' = "south fetched"
  /\ UNCHANGED <<sling, client, reply, apiResponse, departures, err, extractCalls, requests,
                 northStation, page>>

\* c.HTML(http.StatusOK, "index.tmpl.html", ...)
RenderHTML ==
  /\ pc = "south fetched"
  /\ page' = [status |-> 200, template |-> "index.tmpl.html",
              northStation |-> northStation, southStation |-> southStation]
  /\ pc' = "rendered"
  /\ UNCHANGED <<sling, client, reply, apiResponse, departures, err, extractCalls, requests,
                 northStation, southStation, fetches>>

NextRender == FetchNorth \/ FetchSouth \/ RenderHTML

\* Render is straight-line code and the HTTP client gives up after ten
\* seconds: every step that can be taken is taken
SpecRender == Init /\ [][NextRender]_vars /\ WF_vars(NextRender)

(***************************************************************************)
(* Properties of the service facade (specification Spec).                  *)
(***************************************************************************)
Returned_ == pc = "returned"

ByImpl == pc = "returned" /\ client = "MbtaServiceImpl"

ByTest == pc = "returned" /\ client = "MbtaServiceTest"

\* the body is a JSON object whose "errors" member is a well-typed array
CarriesEnvelope == ~reply.fail /\ reply.body.kind = "json" /\ reply.body.errorsOK

\* C1: every call of MbtaServiceImpl.ListDepartures whose response has a
\* non-2xx status returns nil rows and a non-nil error, whatever the body is,
\* and does not run ExtractDepartures.
C1_NonSuccessReturnsError ==
  (ByImpl /\ ~reply.fail /\ ~IsSuccess(reply.status))
    => (departures = NilRows /\ err # NilError /\ extractCalls = 0)

\* C2: whenever the body carries an "errors" array with one or more entries,
\* ListDepartures of either service returns nil rows and the ApiV3Error, even
\* when the HTTP status is 2xx. (Stated for the bodies whose other members
\* are well-typed, so that no decode error stands in the envelope's way.)
C2_EnvelopeTakesPrecedence ==
  ((ByImpl \/ ByTest) /\ CarriesEnvelope /\ reply.body.dataOK
      /\ Len(reply.body.errors) >= 1)
    => (departures = NilRows /\ err = ApiV3Error(reply.body.errors))

\* the upstream answered the call with an error envelope: an error response
\* (for the test service, a file) whose body decoded into an ApiV3Error
AnsweredWithEnvelope ==
  /\ CarriesEnvelope
  /\ \/ ByTest
     \/ ByImpl /\ ~IsSuccess(reply.status)

\* the %+v text of the 429 entry and of the 400 entry
C3_EntryText(e) ==
  IF e.Status = "429"
  THEN "{Status:429 Source:{Parameter:} Detail:You have exceeded your allowed usage rate. Code:rate_limited}"
  ELSE "{Status:400 Source:{Parameter:sort} Detail:Invalid sort Code:bad_request}"

RECURSIVE C3_Joined(_, _)
C3_Joined(entries, i) ==
  IF i > Len(entries) THEN ""
  ELSE IF i = Len(entries) THEN C3_EntryText(entries[i])
  ELSE C3_EntryText(entries[i]) \o " " \o C3_Joined(entries, i + 1)

ImplRequestFailed ==
  \/ reply.fail
  \/ /\ ~(sling # "decodes all" /\ reply.status = 204)
     /\ ~(sling = "skips 204 and empty" /\ reply.body.kind = "empty" /\ ~reply.chunked)
     /\ IF IsSuccess(reply.status)
        THEN ~(reply.body.kind = "json" /\ reply.body.dataOK)
        ELSE ~(reply.body.kind = "json" /\ reply.body.errorsOK)

\* the file of MbtaServiceTest did not open, or one of the decodings that
\* ListDepartures ran on its bytes failed
TestRequestFailed ==
  \/ reply.fail
  \/ ~(reply.body.kind = "json" /\ reply.body.errorsOK)
  \/ Len(reply.body.errors) = 0 /\ ~reply.body.dataOK

\* C4: a transport failure or a decode failure is fatal: ListDepartures
\* returns nil rows with that error, does not run ExtractDepartures and sends
\* no second request.
C4_FailuresAreFatal ==
  /\ (ByImpl /\ ImplRequestFailed)
       => /\ departures = NilRows
          /\ err = (IF reply.fail THEN TransportError ELSE DecodeError)
          /\ extractCalls = 0
          /\ requests = 1
  /\ (ByTest /\ TestRequestFailed)
       => /\ departures = NilRows
          /\ err = (IF reply.fail THEN OpenError ELSE DecodeError)
          /\ extractCalls = 0
          /\ requests = 0

\* a 200 whose body is no JSON came back as a decode error
C4_Witness ==
  /\ ByImpl
  /\ ~reply.fail
  /\ reply.status = 200
  /\ reply.body.kind = "garbage"
  /\ departures = NilRows
  /\ err = DecodeError
  /\ requests = 1

(***************************************************************************)
(* Properties of ExtractDepartures (specification SpecExtract).            *)
(***************************************************************************)
Extracted_ == pc = "returned" /\ client = "ExtractDepartures"

\* the record's route id is the id of an included route of mode 2
RefersToCommuterRail(record, included) ==
  \E j \in 1..Len(included) :
    /\ included[j].Type = "route"
    /\ included[j].RouteType = 2
    /\ included[j].Id = record.Route

\* the record passes the filters of the extractor
Eligible(record, included) ==
  /\ record.DepartureTime # <<>>
  /\ record.Status # ""
  /\ RefersToCommuterRail(record, included)

\* the eligible records of the payload, in input order
EligibleRecords ==
  LET Keep(record) == Eligible(record, apiResponse.Included)
  IN SelectSeq(apiResponse.Data, Keep)

Unparsable(record) == ~ParseRFC3339(record.DepartureTime).ok

\* the eligible records with an unparsable timestamp, in input order
UnparsableRecords == SelectSeq(EligibleRecords, Unparsable)

\* "(Parse Error) " followed by the raw timestamp
C5_Label(raw) ==
  <<"(", "P", "a", "r", "s", "e", " ", "E", "r", "r", "o", "r", ")", " ">> \o raw

\* C5: every eligible record with an unparsable timestamp yields exactly one
\* row, whose TimeLabel is "(Parse Error) <raw timestamp>", and one entry of
\* the ParseError: the ParseError has as many entries as there are eligible
\* records with an unparsable timestamp.
C5_ParseErrorRows ==
  Extracted_ =>
    /\ Len(departures.rows) = Len(EligibleRecords)
    /\ \A i \in 1..Len(EligibleRecords) :
         Unparsable(EligibleRecords[i])
           => departures.rows[i].TimeLabel = C5_Label(EligibleRecords[i].DepartureTime)
    /\ Len(err.errors) = Len(UnparsableRecords)
    /\ \A k \in 1..Len(UnparsableRecords) :
         err.errors[k] = C5_Label(UnparsableRecords[k].DepartureTime)

\* a good and a bad timestamp: two rows, one of them the error rendering,
\* and one entry in the ParseError
C5_Witness ==
  /\ Extracted_
  /\ Len(EligibleRecords) = 2
  /\ Len(UnparsableRecords) = 1
  /\ Len(departures.rows) = 2
  /\ \E i \in 1..2 : departures.rows[i].TimeLabel = C5_Label(TimeBad)
  /\ err.kind = "ParseError"
  /\ Len(err.errors) = 1

\* C6: parse errors never abort the extraction: there is one row for every
\* eligible record, the error is nil exactly if no eligible record had an
\* unparsable timestamp, and the rows are never nil.
C6_ParseErrorsNotFatal ==
  Extracted_ =>
    /\ ~departures.isNil
    /\ Len(departures.rows) = Len(EligibleRecords)
    /\ (err = NilError) <=> (Len(UnparsableRecords) = 0)
    /\ err # NilError => err.kind = "ParseError"

\* an unparsable record first, a parsable one after it: both have their row
C6_Witness ==
  /\ Extracted_
  /\ Len(apiResponse.Data) = 2
  /\ Len(EligibleRecords) = 2
  /\ Unparsable(apiResponse.Data[1])
  /\ ~Unparsable(apiResponse.Data[2])
  /\ err.kind = "ParseError"
  /\ ~departures.isNil
  /\ Len(departures.rows) = 2

\* the payload without the records that fail the test
Without(response, Drop(_)) ==
  LET Keep(record) == ~Drop(record)
  IN ApiV3Response(SelectSeq(response.Data, Keep), response.Included)

NoTimestamp(record) == record.DepartureTime = <<>>

\* C7: a record with an empty departure timestamp never contributes a row,
\* whatever its other fields and the included array are: there are no more
\* rows than records with a timestamp, and the rows are those of the payload
\* without the records that have none.
C7_EmptyTimestampExcluded ==
  Extracted_ =>
    /\ Len(departures.rows)
         <= Cardinality({i \in 1..Len(apiResponse.Data) :
                           ~NoTimestamp(apiResponse.Data[i])})
    /\ departures = ExtractDepartures(Without(apiResponse, NoTimestamp)).departures

\* a record with status and commuter-rail route but no timestamp gave no row,
\* while the record after it gave one
C7_Witness ==
  /\ Extracted_
  /\ Len(apiResponse.Data) = 2
  /\ NoTimestamp(apiResponse.Data[1])
  /\ apiResponse.Data[1].Status # ""
  /\ RefersToCommuterRail(apiResponse.Data[1], apiResponse.Included)
  /\ Eligible(apiResponse.Data[2], apiResponse.Included)
  /\ Len(departures.rows) = 1

NotCommuterRail(record) == ~RefersToCommuterRail(record, apiResponse.Included)

\* C8: a record contributes a row only if its route id is the id of an
\* included entity of kind "route" with mode code 2: there are no more rows
\* than such records, and the rows are those of the payload without the others.
C8_OnlyCommuterRail ==
  Extracted_ =>
    /\ Len(departures.rows)
         <= Cardinality({i \in 1..Len(apiResponse.Data) :
                           ~NotCommuterRail(apiResponse.Data[i])})
    /\ departures = ExtractDepartures(Without(apiResponse, NotCommuterRail)).departures

\* a well-formed record whose route id is only that of a route of another mode
\* and of an entity of another kind gave no row, while the other record did
C8_Witness ==
  /\ Extracted_
  /\ Len(apiResponse.Data) = 2
  /\ apiResponse.Data[1] = Record(TimeGood, "On time", "a", "a", "a")
  /\ apiResponse.Included = <<Entity("route", "a", "", "", 3), Entity("route", "b", "", "", 2)>>
  /\ Eligible(apiResponse.Data[2], apiResponse.Included)
  /\ Len(departures.rows) = 1

\* the row of an eligible record
C9_RowOf(record) ==
  BuildRow(BuildIndexes(apiResponse.Included, 1, EmptyIndexes), record)

\* C9: the output is a stable filter of the input: the i-th row is the row of
\* the i-th eligible record, so there are as many rows as eligible records,
\* in input order.
C9_StableFilter ==
  Extracted_ =>
    /\ Len(departures.rows) = Len(EligibleRecords)
    /\ \A i \in 1..Len(EligibleRecords) :
         departures.rows[i] = C9_RowOf(EligibleRecords[i])

\* two eligible records with different rows, in input order
C9_Witness ==
  /\ Extracted_
  /\ Len(EligibleRecords) = 2
  /\ Len(departures.rows) = 2
  /\ departures.rows[1] # departures.rows[2]
  /\ departures.rows[1] = C9_RowOf(apiResponse.Data[1])
  /\ departures.rows[2] = C9_RowOf(apiResponse.Data[2])

\* what the lookup of a stop id in the track index yields: the platform code
\* of the last included stop with that id, the empty string if there is none
C10_Lookup(stop) ==
  LET found == {j \in 1..Len(apiResponse.Included) :
                  /\ apiResponse.Included[j].Type = "stop"
                  /\ apiResponse.Included[j].Id = stop}
  IN IF found = {} THEN ""
     ELSE apiResponse.Included[CHOOSE j \in found : \A k \in found : k <= j].PlatformCode

C11_TrackCopiedUnchanged ==
  Extracted_ =>
    \A i \in 1..Len(departures.rows) :
      departures.rows[i].Track = C10_Lookup(EligibleRecords[i].Stop)

\* the records with a timestamp and a commuter-rail route, whatever their status
C12_Candidates ==
  LET Keep(record) ==
        /\ record.DepartureTime # <<>>
        /\ RefersToCommuterRail(record, apiResponse.Included)
  IN SelectSeq(apiResponse.Data, Keep)

\* C12: a record with an empty status yields a row with Status "Delayed" if
\* its departure time is later than that of its linked schedule, and a row
\* with an empty Status if not; in both cases the record is in the output.
\* (ApiV3Response decodes no schedule reference, so the formula leaves open
\* which of the two cases a record is in.)
C12_DelayInference ==
  Extracted_ =>
    /\ Len(departures.rows) = Len(C12_Candidates)
    /\ \A i \in 1..Len(C12_Candidates) :
         C12_Candidates[i].Status = ""
           => departures.rows[i].Status \in {"Delayed", ""}

(***************************************************************************)
(* ExtractDepartures on one record at every time of day (specification     *)
(* SpecFormat): the record and the included entities are those of the      *)
(* one-row payload, the timestamp varies.                                  *)
(***************************************************************************)
\* the UTC offsets of the timestamps: "Z", "-05:00", "+09:30"
Zones ==
  {<<"Z">>, <<"-", "0", "5", ":", "0", "0">>, <<"+", "0", "9", ":", "3", "0">>}

\* "2023-01-01Thh:mm:00" followed by the zone
Timestamp(hour, minute, zone) ==
  <<"2", "0", "2", "3", "-", "0", "1", "-", "0", "1", "T",
    DigitChar(hour \div 10), DigitChar(hour % 10), ":",
    DigitChar(minute \div 10), DigitChar(minute % 10), ":", "0", "0">> \o zone

\* route R1 is commuter rail, trip T1 goes to Newburyport, stop S1 has no
\* platform code
OneRowIncluded ==
  <<Entity("route", "R1", "", "", 2), Entity("trip", "T1", "Newburyport", "", 0),
    Entity("stop", "S1", "", "", 0)>>

OneRowPayload(time) ==
  ApiV3Response(<<Record(time, "On time", "R1", "S1", "T1")>>, OneRowIncluded)

InitFormat ==
  /\ sling = "skips 204 and empty"
  /\ \E hour \in 0..23, minute \in 0..59, zone \in Zones :
       Idle(OneRowPayload(Timestamp(hour, minute, zone)))

SpecFormat == InitFormat /\ [][NextExtract]_vars

\* the hour of the 12-hour clock: 0 is 12, 13..23 are 1..11
C13_Hour(h) == IF h = 0 THEN 12 ELSE IF h > 12 THEN h - 12 ELSE h

\* H:MM followed by AM or PM
C13_Label(h, m) ==
  (IF C13_Hour(h) >= 10 THEN <<"1", DigitChar(C13_Hour(h) - 10)>>
   ELSE <<DigitChar(C13_Hour(h))>>)
    \o <<":", DigitChar(m \div 10), DigitChar(m % 10)>>
    \o (IF h < 12 THEN <<"A", "M">> ELSE <<"P", "M">>)

IndexRecords ==
  {Record(TimeGood, "On time", "r1", "s1", "t1"),
   Record(TimeBad, "On time", "r1", "s1", "t2"),
   Record(TimeGood, "On time", "r2", "s1", "t1")}

IndexEntities ==
  {Entity("route", "r1", "", "", 2), Entity("route", "r2", "", "", 3),
   Entity("stop", "s1", "", "10", 0), Entity("stop", "s1", "", "", 0),
   Entity("trip", "t1", "Readville", "", 0), Entity("trip", "t1", "", "", 0),
   Entity("schedule", "s1", "Elsewhere", "9", 2),
   Entity("vehicle", "r2", "Nowhere", "1", 2)}

InitIndex ==
  /\ sling = "skips 204 and empty"
  /\ \E data \in SeqUpTo(IndexRecords, MaxIndexData),
        included \in SeqUpTo(IndexEntities, MaxIndexIncluded) :
       Idle(ApiV3Response(data, included))

SpecIndex == InitIndex /\ [][NextExtract]_vars

\* what the call returned
C14_Returned == [departures |-> departures, err |-> err]

\* what ExtractDepartures returns for the records of the payload and the
\* given included array
C14_ResultWith(included) ==
  LET out == ExtractDepartures(ApiV3Response(apiResponse.Data, included))
  IN [departures |-> out.departures, err |-> out.err]

C14_Indexed(entity) == entity.Type \in {"route", "stop", "trip"}

C14_Other(entity) == ~C14_Indexed(entity)

\* C14: included entities whose kind is none of route, stop and trip are
\* ignored: the rows and the error are those of the payload without them,
\* whatever their ids and attributes.
C14_OtherKindsIgnored ==
  Extracted_ =>
    /\ C14_Returned = C14_ResultWith(SelectSeq(apiResponse.Included, C14_Indexed))
    /\ BuildIndexes(apiResponse.Included, 1, EmptyIndexes)
         = BuildIndexes(SelectSeq(apiResponse.Included, C14_Indexed), 1, EmptyIndexes)

\* a schedule with the stop's id and a platform code of its own, after the
\* stop: the row shows the stop's platform code
C14_Witness ==
  /\ Extracted_
  /\ apiResponse.Included
       = <<Entity("route", "r1", "", "", 2), Entity("stop", "s1", "", "10", 0),
           Entity("schedule", "s1", "Elsewhere", "9", 2)>>
  /\ Len(departures.rows) >= 1
  /\ departures.rows[1].Track = "10"

\* the permutations of 1..n
C15_Permutations(n) ==
  {p \in [1..n -> 1..n] : \A i, j \in 1..n : p[i] = p[j] => i = j}

C15_Permuted(seq, p) == [i \in 1..Len(seq) |-> seq[p[i]]]

\* no entity id appears twice with conflicting kinds
C15_KindsAgree(included) ==
  \A j, k \in 1..Len(included) :
    included[j].Id = included[k].Id => included[j].Type = included[k].Type

\* no two stops of the same id differ in platform code, no two trips of the
\* same id in headsign
C15_AttributesAgree(included) ==
  \A j, k \in 1..Len(included) :
    (included[j].Id = included[k].Id /\ included[j].Type = included[k].Type)
      => /\ included[j].Type = "stop"
              => included[j].PlatformCode = included[k].PlatformCode
         /\ included[j].Type = "trip" => included[j].Headsign = included[k].Headsign

\* every permutation of the included array gives the same indexes, rows and error
C15_OrderIrrelevant ==
  \A p \in C15_Permutations(Len(apiResponse.Included)) :
    /\ BuildIndexes(C15_Permuted(apiResponse.Included, p), 1, EmptyIndexes)
         = BuildIndexes(apiResponse.Included, 1, EmptyIndexes)
    /\ C14_ResultWith(C15_Permuted(apiResponse.Included, p)) = C14_Returned

\* C15 as claimed: for any included array in which no entity id appears twice
\* with conflicting kinds, every permutation of the array makes
\* ExtractDepartures build the same three indexes and return the same rows
\* and the same error.
C15_OrderIndependent ==
  (Extracted_ /\ C15_KindsAgree(apiResponse.Included)) => C15_OrderIrrelevant

\* C15 as amended: the same, for the included arrays in which moreover no two
\* stops of the same id differ in platform code and no two trips of the same
\* id differ in headsign.
C15_OrderIndependentWithoutDuplicates ==
  (Extracted_ /\ C15_KindsAgree(apiResponse.Included)
     /\ C15_AttributesAgree(apiResponse.Included))
    => C15_OrderIrrelevant

\* a route, a stop and a trip, each once: a row with its track and destination
C15_Witness ==
  /\ Extracted_
  /\ Len(apiResponse.Included) = 3
  /\ C15_KindsAgree(apiResponse.Included)
  /\ C15_AttributesAgree(apiResponse.Included)
  /\ Len(departures.rows) >= 1
  /\ departures.rows[1].Track = "10"
  /\ departures.rows[1].Destination = "Readville"

\* what the lookup of a trip id in the destination index yields: the headsign
\* of the last included trip with that id, the empty string if there is none
C17_Headsign(trip) ==
  LET found == {j \in 1..Len(apiResponse.Included) :
                  /\ apiResponse.Included[j].Type = "trip"
                  /\ apiResponse.Included[j].Id = trip}
  IN IF found = {} THEN ""
     ELSE apiResponse.Included[CHOOSE j \in found : \A k \in found : k <= j].Headsign

Rendered_ == pc = "rendered"

\* the board a fetch answered with the given reply yields
C16_BoardOf(title, fetch) ==
  DepartureBoard(title, ListDepartures(client, sling, fetch.reply).departures,
                 ListDepartures(client, sling, fetch.reply).err)

C16_BoardsOfOwnFetches ==
  Rendered_ =>
    /\ Len(fetches) = 2
    /\ fetches[1].place = "place-north"
    /\ fetches[2].place = "place-sstat"
    /\ page.status = 200
    /\ page.northStation = C16_BoardOf("North Station Information", fetches[1])
    /\ page.southStation = C16_BoardOf("South Station Information", fetches[2])

\* C16: Render always issues both fetches, place-north and then place-sstat,
\* each board's Departures and Error are exactly the result of its own fetch,
\* whatever the other fetch returned, and the page is rendered in every case.
C16_BothBoardsRendered == [](C16_BoardsOfOwnFetches) /\ <>Rendered_

\* North Station's fetch failed for good, South Station's returned rows
\* together with a ParseError: both are on the page as they are
C16_Witness ==
  /\ Rendered_
  /\ page.northStation.Error = TransportError
  /\ page.northStation.Departures = NilRows
  /\ page.southStation.Error.kind = "ParseError"
  /\ Len(page.southStation.Departures.rows) = 2

====
